---- MODULE Spec2Model ----
(***************************************************************************)
(* Model of the TCP connect scanner of sysadmin_toolkit/port_scanner.py:   *)
(* scan_port (one probe), scan_ports (thread pool + as_completed           *)
(* collector) and quick_scan (sequential loop over the common ports).      *)
(*                                                                         *)
(* Python values: None is the string "None"; a dict is a record; a list is *)
(* a sequence.  An address is a small integer, NoAddr meaning "the         *)
(* resolver has no answer for the host" (socket.gaierror).                 *)
(***************************************************************************)
EXTENDS Integers, Sequences, FiniteSets, TLC

\* ---------------------------------------------------------------- bounds
\* Number of valid port numbers the caller may pass as start_port / end_port.
NumPorts == 3
\* Largest max_workers the caller passes.
MaxWorkers == 2
\* Most listening ports the environment has among quick_scan's common ports.
MaxQuickOpen == 2

\* Largest port number the socket layer accepts in connect_ex((host, port)).
MaxPort == 65535

\* Port numbers the caller draws start_port and end_port from: the top of
\* the valid range and the first number the socket layer rejects.
RangePorts == (MaxPort - NumPorts + 1)..(MaxPort + 1)

\* quick_scan's common_ports list.
common_ports ==
  << 21, 22, 23, 25, 53, 80, 110, 135, 139, 143, 443, 445,
     993, 995, 1433, 1521, 3306, 3389, 5432, 5900, 8080, 8443 >>

CommonPortSet == { common_ports[i] : i \in 1..Len(common_ports) }

AllPorts == RangePorts \cup CommonPortSet

NoAddr == 0
Addrs == {1}

\* socket.getservbyport(port) looks the port up in the system's services
\* database: the well-known common ports have a name there, the ports at the
\* top of the range have none (OSError "port/proto not found").
ServiceKnown(port) == port \in CommonPortSet

\* Values connect_ex returns: 0 success, 111 ECONNREFUSED, 11 EAGAIN (the
\* timeout elapsed), 101 ENETUNREACH.
ConnectCodes == {0, 111, 11, 101}

\* ------------------------------------------------------------- scan_port
\* What one call of scan_port does, given what the socket layer answers:
\* sock_ok  - socket.socket() returned a socket (else it raised OSError)
\* addr     - the resolver's answer for host inside connect_ex
\* code     - the value connect_ex returns when it returns
\* serv     - getservbyport(port) finds a name (else it raises OSError)
\* The outcome is the returned dict or the exception that leaves scan_port;
\* sock is the state the probe leaves its socket in.
ScanPort_LookupFatal(port, sock_ok, addr, code, serv) ==
  IF ~sock_ok THEN
    [kind |-> "return", sock |-> "none",
     value |-> [port |-> port, status |-> "error", service |-> "None",
                error |-> "socket"]]
  ELSE IF addr = NoAddr THEN
    [kind |-> "return", sock |-> "open",
     value |-> [port |-> port, status |-> "error", service |-> "None",
                error |-> "gaierror"]]
  ELSE IF port < 0 \/ port > MaxPort THEN
    [kind |-> "raise", sock |-> "open", exc |-> "OverflowError"]
  ELSE IF code = 0 THEN
    IF serv
      THEN [kind |-> "return", sock |-> "closed",
            value |-> [port |-> port, status |-> "abierto", service |-> "svc"]]
      ELSE [kind |-> "return", sock |-> "closed",
            value |-> [port |-> port, status |-> "error", service |-> "None",
                       error |-> "port/proto not found"]]
  ELSE
    [kind |-> "return", sock |-> "closed",
     value |-> [port |-> port, status |-> "cerrado", service |-> "None"]]

ScanPort_ServiceOmitted(port, sock_ok, addr, code, serv) ==
  IF ~sock_ok THEN
    [kind |-> "return", sock |-> "none",
     value |-> [port |-> port, status |-> "error", service |-> "None",
                error |-> "socket"]]
  ELSE IF addr = NoAddr THEN
    [kind |-> "return", sock |-> "open",
     value |-> [port |-> port, status |-> "error", service |-> "None",
                error |-> "gaierror"]]
  ELSE IF port < 0 \/ port > MaxPort THEN
    [kind |-> "raise", sock |-> "open", exc |-> "OverflowError"]
  ELSE IF code = 0 THEN
    [kind |-> "return", sock |-> "closed",
     value |-> [port |-> port, status |-> "abierto",
                service |-> IF serv THEN "svc" ELSE "None"]]
  ELSE
    [kind |-> "return", sock |-> "closed",
     value |-> [port |-> port, status |-> "cerrado", service |-> "None"]]

ScanPort(port, sock_ok, addr, code, serv) ==
  IF ~sock_ok THEN
    \* socket.socket() raised: caught by "except socket.error"
    [kind |-> "return", sock |-> "none",
     value |-> [port |-> port, status |-> "error", service |-> "None",
                error |-> "socket"]]
  ELSE IF addr = NoAddr THEN
    \* connect_ex resolves host first: gaierror is an OSError, caught
    [kind |-> "return", sock |-> "open",
     value |-> [port |-> port, status |-> "error", service |-> "None",
                error |-> "gaierror"]]
  ELSE IF port < 0 \/ port > MaxPort THEN
    \* connect_ex rejects the port: OverflowError is no OSError, not caught
    [kind |-> "raise", sock |-> "open", exc |-> "OverflowError"]
  ELSE IF code = 0 THEN
    [kind |-> "return", sock |-> "closed",
     value |-> [port |-> port, status |-> "abierto",
                service |-> IF serv THEN "svc" ELSE "desconocido"]]
  ELSE
    [kind |-> "return", sock |-> "closed",
     value |-> [port |-> port, status |-> "cerrado", service |-> "None"]]

\* ------------------------------------------------ NetworkUtils.port_check
\* What one call of port_check does, given the same answers of the socket
\* layer as ScanPort.  The dict's "host" entry, the argument passed back, is
\* left out.
PortCheck_ServiceAlways(port, sock_ok, addr, code, serv) ==
  IF ~sock_ok THEN
    [kind |-> "return", sock |-> "none",
     value |-> [port |-> port, is_open |-> FALSE, error |-> "socket"]]
  ELSE IF addr = NoAddr THEN
    [kind |-> "return", sock |-> "open",
     value |-> [port |-> port, is_open |-> FALSE, error |-> "gaierror"]]
  ELSE IF port < 0 \/ port > MaxPort THEN
    [kind |-> "raise", sock |-> "open", exc |-> "OverflowError"]
  ELSE
    [kind |-> "return", sock |-> "closed",
     value |-> [port |-> port, is_open |-> (code = 0),
                service |-> IF serv THEN "svc" ELSE "desconocido"]]

PortCheck(port, sock_ok, addr, code, serv) ==
  IF ~sock_ok THEN
    \* socket.socket() raised: caught by "except socket.error"; the dict
    \* returned has no "service" entry
    [kind |-> "return", sock |-> "none",
     value |-> [port |-> port, is_open |-> FALSE, error |-> "socket"]]
  ELSE IF addr = NoAddr THEN
    [kind |-> "return", sock |-> "open",
     value |-> [port |-> port, is_open |-> FALSE, error |-> "gaierror"]]
  ELSE IF port < 0 \/ port > MaxPort THEN
    [kind |-> "raise", sock |-> "open", exc |-> "OverflowError"]
  ELSE
    \* getservbyport is called whatever result is; its name is reported
    \* only for an open port
    LET is_open == code = 0
        service == IF serv THEN "svc" ELSE "desconocido"
    IN [kind |-> "return", sock |-> "closed",
        value |-> [port |-> port, is_open |-> is_open,
                   service |-> IF is_open THEN service ELSE "None"]]

\* Name resolutions a scan_port call with this outcome has made: one, inside
\* connect_ex((host, port)), unless socket.socket() failed before it.
Resolutions(o) == IF o.sock = "none" THEN 0 ELSE 1

\* ------------------------------------------------------------ scan_ports
\* range(start_port, end_port + 1)
ports_to_scan_OffByOne(s, e) == s..(e - 1)

ports_to_scan(s, e) == s..e

\* ThreadPoolExecutor._adjust_thread_count, called by every submit: reuse an
\* idle worker if the idle semaphore can be taken, else spawn a thread while
\* fewer than max_workers exist.
AdjustThreadCount_NoCap(idle, threads, maxw) ==
  IF idle > 0 THEN [idle |-> idle - 1, threads |-> threads]
  ELSE [idle |-> idle, threads |-> threads + 1]

AdjustThreadCount(idle, threads, maxw) ==
  IF idle > 0 THEN [idle |-> idle - 1, threads |-> threads]
  ELSE IF threads < maxw THEN [idle |-> idle, threads |-> threads + 1]
  ELSE [idle |-> idle, threads |-> threads]

\* result["status"] == "abierto"
IsOpenResult_NotClosed(r) == r.status # "cerrado"

IsOpenResult(r) == r.status = "abierto"

\* sorted(open_ports, key=lambda x: x["port"]): stable insertion by port.
RECURSIVE InsertByPort(_, _)
InsertByPort(r, s) ==
  IF s = << >> THEN << r >>
  ELSE IF r.port < Head(s).port THEN << r >> \o s
  ELSE << Head(s) >> \o InsertByPort(r, Tail(s))

RECURSIVE SortedByPort(_)
SortedByPort_Unsorted(s) == s

SortedByPort(s) ==
  IF s = << >> THEN << >>
  ELSE InsertByPort(s[Len(s)], SortedByPort(SubSeq(s, 1, Len(s) - 1)))

NoValue == "NoValue"

\* len(ports_to_scan)
total_ports(s, e) == Cardinality(ports_to_scan(s, e))

\* The lines scan_ports and quick_scan print while they run.
\* "[+] Puerto {port}/tcp ABIERTO - {service}"
OpenLine(r) == [line |-> "open", port |-> r.port, service |-> r.service]
\* "... Progreso: {scanned}/{total_ports} puertos escaneados"
ProgressLine(n, total) == [line |-> "progress", scanned |-> n, total |-> total]
\* "Escaneo completado / Puertos abiertos encontrados: {len(open_ports)}"
SummaryLine(k) == [line |-> "summary", count |-> k]
\* "Total puertos abiertos: {len(open_ports)}"
TotalLine(k) == [line |-> "total", count |-> k]
\* "[ERROR] No se pudo resolver el host: {host}"
UnresolvedLine == [line |-> "unresolved"]

\* if result["status"] == "abierto": ... print("[+] Puerto ...")
Announce_Nothing(lines, r) == lines

Announce(lines, r) ==
  IF IsOpenResult(r) THEN Append(lines, OpenLine(r)) ELSE lines

\* The progress line is printed every ProgressEvery collected futures.
ProgressEvery == 100

\* if scanned % 100 == 0
ProgressDue_FromThreshold(n) == n >= ProgressEvery

ProgressDue(n) == n % ProgressEvery = 0

\* The progress print that ends an iteration of the collector loop.
Progress(lines, n, total) ==
  IF ProgressDue(n) THEN Append(lines, ProgressLine(n, total)) ELSE lines

VARIABLES
  op,             \* entry point called: "scan_ports" or "quick_scan"
  dns,            \* the resolver's answer for host (NoAddr: unresolvable)
  start_port, end_port, max_workers,
  pc,             \* position of the calling thread
  target_ip,      \* scan_ports' target_ip (NoAddr before resolution)
  executor,       \* "none", "open" (inside the with block), "shutdown"
  next_submit,    \* next port the submit comprehension hands to the pool
  fut,            \* per port: the future's state and outcome
  work_queue,     \* the executor's FIFO of work items (ports)
  num_threads,    \* worker threads spawned
  idle_semaphore, \* the executor's _idle_semaphore
  yielded,        \* futures as_completed has yielded
  scanned, open_ports,
  retval,         \* the list the call returned (empty before it returns)
  exc,            \* exception that left the call ("none" if none)
  probes,         \* per port: number of scan_port calls started
  collects,       \* per port: number of loop bodies run for its future
  q_i,            \* quick_scan: index of the next common port
  call,           \* a direct scan_port call: its port and what the socket
                  \* layer answers it (NoValue when none is made)
  probe_out,      \* the outcome of that call (NoValue before it ends)
  check_out,      \* the outcome of port_check called with the same
                  \* arguments and answers (NoCheck before it ends)
  manifest,       \* BackupManager: self.manifest["backups"]
  manifest_file,  \* the "backups" list saved in backup_manifest.json
  bm_call,        \* the last BackupManager call: its number, method and id
  bm_ret,         \* what that call returned
  bm_all_ok,      \* every create_backup and delete_backup call so far
                  \* returned success
  temp_files,     \* DiskCleaner: the files that exist in the temp folders
  scan_results,   \* self.scan_results
  dc_call,        \* the last DiskCleaner call: its number and method
  dc_ret,         \* what that call returned
  env,            \* per port: the answers the socket layer may give a probe
  lookups,        \* name resolutions of host made by the run
  run,            \* number of the scan_ports call being made (1, 2)
  prev_retval,    \* the list the previous scan_ports call returned
  out             \* the lines the call has printed, in order

vars == << op, dns, start_port, end_port, max_workers, pc, target_ip, executor,
           next_submit, fut, work_queue, num_threads, idle_semaphore, yielded,
           scanned, open_ports, retval, exc, probes, collects, q_i, call,
           probe_out, env, lookups, run, prev_retval, out, check_out,
           manifest, manifest_file, bm_call, bm_ret, bm_all_ok,
           temp_files, scan_results, dc_call, dc_ret >>

probe_vars == << call, probe_out, check_out >>

\* The state of the toolkit's backup manager and disk cleaner.
backup_vars == << manifest, manifest_file, bm_call, bm_ret, bm_all_ok >>

cleaner_vars == << temp_files, scan_results, dc_call, dc_ret >>

\* The state of the port scanner.
scanner_vars == << op, dns, start_port, end_port, max_workers, pc, target_ip,
                   executor, next_submit, fut, work_queue, num_threads,
                   idle_semaphore, yielded, scanned, open_ports, retval, exc,
                   probes, collects, q_i, call, probe_out, env, lookups, run,
                   prev_retval, out, check_out >>

NoCall == [n |-> 0, method |-> "none"]

\* A BackupManager over an empty backup directory: _load_manifest finds no
\* manifest file.
NewBackupManager ==
  /\ manifest = << >>
  /\ manifest_file = << >>
  /\ bm_call = NoCall
  /\ bm_ret = [success |-> FALSE]
  /\ bm_all_ok = TRUE

\* DiskCleaner(): nothing scanned yet.
NewDiskCleaner(files) ==
  /\ temp_files = files
  /\ scan_results = << >>
  /\ dc_call = NoCall
  /\ dc_ret = [error |-> "none"]

inputs == << op, dns, start_port, end_port, max_workers, env >>

\* What an earlier call of the same process left behind.
runs == << run, prev_retval >>

\* The socket layer may answer a probe in every way.
AnyAnswer == [socks |-> BOOLEAN, codes |-> ConnectCodes]

NoFuture == [state |-> "none"]

NoCheck == [kind |-> "none"]

Running == { p \in RangePorts : fut[p].state = "running" }
Started == { p \in RangePorts : fut[p].state \in {"running", "finished"} }

\* The state before the entry point runs.
Fresh ==
  /\ pc = "start"
  /\ target_ip = NoAddr
  /\ executor = "none"
  /\ next_submit = start_port
  /\ fut = [p \in RangePorts |-> NoFuture]
  /\ work_queue = << >>
  /\ num_threads = 0
  /\ idle_semaphore = 0
  /\ yielded = {}
  /\ scanned = 0
  /\ open_ports = << >>
  /\ retval = << >>
  /\ exc = "none"
  /\ probes = [p \in AllPorts |-> 0]
  /\ collects = [p \in RangePorts |-> 0]
  /\ q_i = 1
  /\ probe_out = NoValue
  /\ check_out = NoCheck
  /\ lookups = 0
  /\ out = << >>

\* A call of scan_ports(host, start_port, end_port, timeout, max_workers) or
\* of quick_scan(host), for any integers of the bounded sets.
Init ==
  /\ op \in {"scan_ports", "quick_scan"}
  /\ dns \in {NoAddr} \cup Addrs
  /\ start_port \in RangePorts
  /\ end_port \in RangePorts
  /\ max_workers \in 1..MaxWorkers
  /\ op = "quick_scan" => start_port = MaxPort /\ end_port = MaxPort
                          /\ max_workers = 1
  /\ call = NoValue
  /\ env = [p \in RangePorts |-> AnyAnswer]
  /\ run = 1
  /\ prev_retval = NoValue
  /\ Fresh
  /\ NewBackupManager
  /\ NewDiskCleaner({})

\* target_ip = socket.gethostbyname(host); on gaierror: return []
ScanPortsResolve_NoAbort ==
  /\ op = "scan_ports" /\ pc = "start"
  /\ target_ip' = dns
  /\ lookups' = lookups + 1
  /\ executor' = "open"
  /\ pc' = IF ports_to_scan(start_port, end_port) = {} THEN "collect" ELSE "submit"
  /\ UNCHANGED << inputs, backup_vars, cleaner_vars, out, probe_vars, runs, retval, next_submit, fut, work_queue, num_threads,
                  idle_semaphore, yielded, scanned, open_ports, exc, probes,
                  collects, q_i >>

ScanPortsResolve ==
  /\ op = "scan_ports" /\ pc = "start"
  /\ target_ip' = dns
  /\ lookups' = lookups + 1
  /\ IF dns = NoAddr
       THEN /\ pc' = "done"
            /\ retval' = << >>
            /\ out' = Append(out, UnresolvedLine)
            /\ UNCHANGED executor
       ELSE /\ executor' = "open"
            /\ pc' = IF ports_to_scan(start_port, end_port) = {}
                       THEN "collect" ELSE "submit"
            /\ UNCHANGED << retval, out >>
  /\ UNCHANGED << inputs, backup_vars, cleaner_vars, probe_vars, runs, next_submit, fut, work_queue, num_threads,
                  idle_semaphore, yielded, scanned, open_ports, exc, probes,
                  collects, q_i >>

\* One iteration of the dict comprehension: executor.submit(scan_port, host,
\* port, timeout) queues the work item and adjusts the thread count.
Submit ==
  /\ pc = "submit"
  /\ next_submit \in ports_to_scan(start_port, end_port)
  /\ LET p == next_submit
         a == AdjustThreadCount(idle_semaphore, num_threads, max_workers)
     IN /\ fut' = [fut EXCEPT ![p] = [state |-> "pending"]]
        /\ work_queue' = Append(work_queue, p)
        /\ idle_semaphore' = a.idle
        /\ num_threads' = a.threads
        /\ next_submit' = p + 1
        /\ pc' = IF p + 1 \in ports_to_scan(start_port, end_port)
                   THEN "submit" ELSE "collect"
  /\ UNCHANGED << inputs, backup_vars, cleaner_vars, out, probe_vars, runs, lookups, target_ip, executor, yielded, scanned, open_ports,
                  retval, exc, probes, collects, q_i >>

\* A worker thread that is waiting on the queue takes the next work item and
\* enters scan_port.
WorkerStart ==
  /\ work_queue # << >>
  /\ Cardinality(Running) < num_threads
  /\ LET p == Head(work_queue)
     IN /\ fut' = [fut EXCEPT ![p] = [state |-> "running"]]
        /\ probes' = [probes EXCEPT ![p] = @ + 1]
  /\ work_queue' = Tail(work_queue)
  /\ UNCHANGED << inputs, backup_vars, cleaner_vars, out, probe_vars, runs, lookups, pc, target_ip, executor, next_submit, num_threads,
                  idle_semaphore, yielded, scanned, open_ports, retval, exc,
                  collects, q_i >>

\* scan_port(host, port, timeout) ends in a worker: the future gets its
\* result or exception and the worker releases the idle semaphore.
WorkerFinish_AppendsItself ==
  \E p \in Running :
    \E sock_ok \in env[p].socks, code \in env[p].codes :
      LET o == ScanPort(p, sock_ok, dns, code, ServiceKnown(p))
      IN /\ fut' = [fut EXCEPT ![p] = [state |-> "finished", outcome |-> o]]
         /\ lookups' = lookups + Resolutions(o)
         /\ idle_semaphore' = idle_semaphore + 1
         /\ scanned' = scanned + 1
         /\ open_ports' = IF o.kind = "return" /\ IsOpenResult(o.value)
                            THEN Append(open_ports, o.value) ELSE open_ports
    /\ UNCHANGED << inputs, backup_vars, cleaner_vars, out, probe_vars, runs, pc, target_ip, executor,
                    next_submit, work_queue, num_threads, yielded, retval, exc,
                    probes, collects, q_i >>

WorkerFinish ==
  \E p \in Running :
    \E sock_ok \in env[p].socks, code \in env[p].codes :
      LET o == ScanPort(p, sock_ok, dns, code, ServiceKnown(p))
      IN /\ fut' = [fut EXCEPT ![p] = [state |-> "finished", outcome |-> o]]
         \* scan_port is given host, not target_ip: connect_ex((host, port))
         \* resolves the name again in every probe that got a socket
         /\ lookups' = lookups + Resolutions(o)
         /\ idle_semaphore' = idle_semaphore + 1
    /\ UNCHANGED << inputs, backup_vars, cleaner_vars, out, probe_vars, runs, pc, target_ip, executor, next_submit, work_queue,
                    num_threads, yielded, scanned, open_ports, retval, exc,
                    probes, collects, q_i >>

\* One iteration of "for future in as_completed(futures)".
Collect ==
  /\ pc = "collect"
  /\ \E p \in RangePorts \ yielded :
       /\ fut[p].state = "finished"
       /\ yielded' = yielded \cup {p}
       /\ collects' = [collects EXCEPT ![p] = @ + 1]
       /\ scanned' = scanned + 1
       /\ IF fut[p].outcome.kind = "raise"
            THEN \* future.result() re-raises; the with block is left
                 /\ exc' = fut[p].outcome.exc
                 /\ pc' = "unwind"
                 /\ UNCHANGED << open_ports, out >>
            ELSE /\ open_ports' =
                      IF IsOpenResult(fut[p].outcome.value)
                        THEN Append(open_ports, fut[p].outcome.value)
                        ELSE open_ports
                 /\ out' = Progress(Announce(out, fut[p].outcome.value),
                                    scanned + 1,
                                    total_ports(start_port, end_port))
                 /\ UNCHANGED << exc, pc >>
  /\ UNCHANGED << inputs, backup_vars, cleaner_vars, probe_vars, runs, lookups, target_ip, executor, next_submit, fut, work_queue,
                  num_threads, idle_semaphore, retval, probes, q_i >>

\* as_completed is exhausted: the with block ends (shutdown(wait=True) finds
\* every worker idle) and the sorted list is returned.
Return_NoWait ==
  /\ pc = "collect"
  /\ executor' = "shutdown"
  /\ out' = Append(out, SummaryLine(Len(open_ports)))
  /\ retval' = SortedByPort(open_ports)
  /\ pc' = "done"
  /\ UNCHANGED << inputs, backup_vars, cleaner_vars, probe_vars, runs, lookups, target_ip, next_submit,
                  fut, work_queue, num_threads, idle_semaphore, yielded,
                  scanned, open_ports, exc, probes, collects, q_i >>

Return ==
  /\ pc = "collect"
  /\ yielded = ports_to_scan(start_port, end_port)
  /\ executor' = "shutdown"
  /\ out' = Append(out, SummaryLine(Len(open_ports)))
  /\ retval' = SortedByPort(open_ports)
  /\ pc' = "done"
  /\ UNCHANGED << inputs, backup_vars, cleaner_vars, probe_vars, runs, lookups, target_ip, next_submit, fut, work_queue, num_threads,
                  idle_semaphore, yielded, scanned, open_ports, exc, probes,
                  collects, q_i >>

\* The operator interrupts: KeyboardInterrupt is raised in the calling
\* thread.  Nothing in scan_ports or quick_scan catches it.
Cancel ==
  /\ pc \in {"start", "submit", "collect", "quick_loop"}
  /\ exc' = "KeyboardInterrupt"
  /\ pc' = IF pc \in {"submit", "collect"} THEN "unwind" ELSE "raised"
  /\ UNCHANGED << inputs, backup_vars, cleaner_vars, out, probe_vars, runs, lookups, target_ip, executor, next_submit, fut, work_queue,
                  num_threads, idle_semaphore, yielded, scanned, open_ports,
                  retval, probes, collects, q_i >>

\* An exception leaves the with block: ThreadPoolExecutor.__exit__ calls
\* shutdown(wait=True), which joins the workers once the queue is drained,
\* and the exception then leaves scan_ports.
Unwind ==
  /\ pc = "unwind"
  /\ work_queue = << >>
  /\ Running = {}
  /\ executor' = "shutdown"
  /\ pc' = "raised"
  /\ UNCHANGED << inputs, backup_vars, cleaner_vars, out, probe_vars, runs, lookups, target_ip, next_submit, fut, work_queue, num_threads,
                  idle_semaphore, yielded, scanned, open_ports, retval, exc,
                  probes, collects, q_i >>

\* ------------------------------------------------------------ quick_scan
QuickScanBegin ==
  /\ op = "quick_scan" /\ pc = "start"
  /\ pc' = "quick_loop"
  /\ UNCHANGED << inputs, backup_vars, cleaner_vars, out, probe_vars, runs, lookups, target_ip, executor, next_submit, fut, work_queue,
                  num_threads, idle_semaphore, yielded, scanned, open_ports,
                  retval, exc, probes, collects, q_i >>

\* One iteration of "for port in common_ports": result = scan_port(host,
\* port, timeout=0.5), appended and announced when open.
QuickScanProbe_StopsOnError ==
  /\ pc = "quick_loop"
  /\ q_i <= Len(common_ports)
  /\ \E sock_ok \in BOOLEAN, code \in ConnectCodes :
       LET port == common_ports[q_i]
           o == ScanPort(port, sock_ok, dns, code, ServiceKnown(port))
       IN /\ code = 0 => Len(open_ports) < MaxQuickOpen
          /\ probes' = [probes EXCEPT ![port] = @ + 1]
          /\ lookups' = lookups + Resolutions(o)
          /\ open_ports' = IF IsOpenResult(o.value)
                             THEN Append(open_ports, o.value)
                             ELSE open_ports
          /\ out' = Announce(out, o.value)
          /\ q_i' = IF o.value.status = "error"
                      THEN Len(common_ports) + 1 ELSE q_i + 1
          /\ UNCHANGED << exc, pc >>
  /\ UNCHANGED << inputs, backup_vars, cleaner_vars, probe_vars, runs, target_ip, executor,
                  next_submit, fut, work_queue, num_threads, idle_semaphore,
                  yielded, scanned, retval, collects >>

QuickScanProbe ==
  /\ pc = "quick_loop"
  /\ q_i <= Len(common_ports)
  /\ \E sock_ok \in BOOLEAN, code \in ConnectCodes :
       LET port == common_ports[q_i]
           o == ScanPort(port, sock_ok, dns, code, ServiceKnown(port))
       IN /\ code = 0 => Len(open_ports) < MaxQuickOpen
          /\ probes' = [probes EXCEPT ![port] = @ + 1]
          \* connect_ex((host, port)) resolves the name in every probe
          /\ lookups' = lookups + Resolutions(o)
          /\ IF o.kind = "raise"
               THEN /\ exc' = o.exc
                    /\ pc' = "raised"
                    /\ UNCHANGED << open_ports, q_i, out >>
               ELSE /\ open_ports' = IF IsOpenResult(o.value)
                                       THEN Append(open_ports, o.value)
                                       ELSE open_ports
                    /\ out' = Announce(out, o.value)
                    /\ q_i' = q_i + 1
                    /\ UNCHANGED << exc, pc >>
  /\ UNCHANGED << inputs, backup_vars, cleaner_vars, probe_vars, runs, target_ip, executor,
                  next_submit, fut, work_queue, num_threads, idle_semaphore,
                  yielded, scanned, retval, collects >>

QuickScanReturn ==
  /\ pc = "quick_loop"
  /\ q_i > Len(common_ports)
  /\ out' = Append(out, TotalLine(Len(open_ports)))
  /\ retval' = open_ports
  /\ pc' = "done"
  /\ UNCHANGED << inputs, backup_vars, cleaner_vars, probe_vars, runs, lookups, target_ip, executor, next_submit, fut, work_queue,
                  num_threads, idle_semaphore, yielded, scanned, open_ports,
                  exc, probes, collects, q_i >>

Next ==
  \/ ScanPortsResolve
  \/ Submit
  \/ WorkerStart
  \/ WorkerFinish
  \/ Collect
  \/ Return
  \/ Cancel
  \/ Unwind
  \/ QuickScanBegin
  \/ QuickScanProbe
  \/ QuickScanReturn

Spec == Init /\ [][Next]_vars

\* ------------------------------------------------- scan_port called alone
\* One direct call scan_port(host, port, timeout): the port is any port of
\* the model and the socket layer may answer in every way it can.
InitProbe ==
  /\ op = "scan_port"
  /\ call \in [port : AllPorts, sock_ok : BOOLEAN, addr : {NoAddr} \cup Addrs,
               code : ConnectCodes, serv : BOOLEAN]
  /\ dns = call.addr
  /\ start_port = call.port /\ end_port = call.port
  /\ max_workers = 1
  /\ env = [p \in RangePorts |-> AnyAnswer]
  /\ run = 1
  /\ prev_retval = NoValue
  /\ Fresh
  /\ NewBackupManager
  /\ NewDiskCleaner({})

ProbeCall ==
  /\ op = "scan_port" /\ pc = "start"
  /\ LET o == ScanPort(call.port, call.sock_ok, call.addr, call.code, call.serv)
     IN /\ probe_out' = o
        /\ probes' = [probes EXCEPT ![call.port] = @ + 1]
        /\ pc' = IF o.kind = "raise" THEN "raised" ELSE "done"
        /\ exc' = IF o.kind = "raise" THEN o.exc ELSE exc
  /\ UNCHANGED << inputs, backup_vars, cleaner_vars, out, runs, lookups, call, check_out, target_ip,
                  executor, next_submit, fut, work_queue, num_threads,
                  idle_semaphore, yielded, scanned, open_ports, retval,
                  collects, q_i >>

\* NetworkUtils().port_check(host, port, timeout) is called for the same
\* host and port, the socket layer answering as it answers scan_port.
PortCheckCall ==
  /\ op = "scan_port" /\ check_out = NoCheck
  /\ check_out' = PortCheck(call.port, call.sock_ok, call.addr, call.code,
                            call.serv)
  /\ UNCHANGED << inputs, backup_vars, cleaner_vars, out, runs, lookups, call, probe_out, pc, exc,
                  probes, target_ip, executor, next_submit, fut, work_queue,
                  num_threads, idle_semaphore, yielded, scanned, open_ports,
                  retval, collects, q_i >>

NextProbe ==
  \/ ProbeCall
  \/ PortCheckCall

SpecProbe == InitProbe /\ [][NextProbe]_vars

\* ------------------------------------------- scan_ports called twice
\* The socket layer gives a probe of the port one fixed answer: the connect
\* succeeds, it is refused, or no socket can be created.
FixedAnswers ==
  { [socks |-> {TRUE}, codes |-> {0}],
    [socks |-> {TRUE}, codes |-> {111}],
    [socks |-> {FALSE}, codes |-> {111}] }

\* Two successive calls of scan_ports with the same arguments (the menu loop
\* of main.py calls it again in the same process), every port's connect
\* outcome being fixed for both calls.
InitTwice ==
  /\ op = "scan_ports"
  /\ dns \in {NoAddr} \cup Addrs
  /\ start_port \in RangePorts
  /\ end_port \in RangePorts
  /\ max_workers \in 1..MaxWorkers
  /\ env \in [RangePorts -> FixedAnswers]
  /\ \A p \in RangePorts :
       (p < start_port \/ p > end_port) =>
         env[p] = [socks |-> {TRUE}, codes |-> {111}]
  /\ call = NoValue
  /\ run = 1
  /\ prev_retval = NoValue
  /\ Fresh
  /\ NewBackupManager
  /\ NewDiskCleaner({})

\* The first call has returned; the caller calls scan_ports again with the
\* same arguments.  Every variable of scan_ports is a local, created anew.
ScanAgain_KeepsOpenPorts ==
  /\ op = "scan_ports" /\ pc = "done" /\ run = 1
  /\ run' = 2
  /\ prev_retval' = retval
  /\ pc' = "start"
  /\ target_ip' = NoAddr
  /\ executor' = "none"
  /\ next_submit' = start_port
  /\ fut' = [p \in RangePorts |-> NoFuture]
  /\ work_queue' = << >>
  /\ num_threads' = 0
  /\ idle_semaphore' = 0
  /\ yielded' = {}
  /\ scanned' = 0
  /\ retval' = << >>
  /\ probes' = [p \in AllPorts |-> 0]
  /\ collects' = [p \in RangePorts |-> 0]
  /\ lookups' = 0
  /\ out' = << >>
  /\ UNCHANGED << inputs, backup_vars, cleaner_vars, probe_vars, open_ports, exc, q_i >>

ScanAgain ==
  /\ op = "scan_ports" /\ pc = "done" /\ run = 1
  /\ run' = 2
  /\ prev_retval' = retval
  /\ pc' = "start"
  /\ target_ip' = NoAddr
  /\ executor' = "none"
  /\ next_submit' = start_port
  /\ fut' = [p \in RangePorts |-> NoFuture]
  /\ work_queue' = << >>
  /\ num_threads' = 0
  /\ idle_semaphore' = 0
  /\ yielded' = {}
  /\ scanned' = 0
  /\ open_ports' = << >>
  /\ retval' = << >>
  /\ probes' = [p \in AllPorts |-> 0]
  /\ collects' = [p \in RangePorts |-> 0]
  /\ lookups' = 0
  /\ out' = << >>
  /\ UNCHANGED << inputs, backup_vars, cleaner_vars, probe_vars, exc, q_i >>

NextTwice ==
  \/ ScanPortsResolve
  \/ Submit
  \/ WorkerStart
  \/ WorkerFinish
  \/ Collect
  \/ Return
  \/ Unwind
  \/ ScanAgain

SpecTwice == InitTwice /\ [][NextTwice]_vars

\* ------------------------------------------------ runs under fair scheduling
\* The steps of the calling thread.
MainStep ==
  \/ ScanPortsResolve
  \/ Submit
  \/ Collect
  \/ Return
  \/ Unwind
  \/ QuickScanBegin
  \/ QuickScanProbe
  \/ QuickScanReturn

\* A call the operator does not interrupt.
NextLive ==
  \/ MainStep
  \/ WorkerStart
  \/ WorkerFinish

\* The interpreter schedules every thread that can run: the calling thread
\* and the pool's workers each take their next step eventually, and a probe
\* ends because sock.settimeout(timeout) bounds connect_ex.
SpecLive ==
  /\ Init
  /\ [][NextLive]_vars
  /\ WF_vars(MainStep)
  /\ WF_vars(WorkerStart)
  /\ WF_vars(WorkerFinish)

\* ------------------------------------------------------- a long scan
\* Largest end_port of a long scan that starts at port 1.
LongRange == 250

\* Results a probe returns for a port nothing listens on.
NotOpenResults(port) ==
  { [port |-> port, status |-> "cerrado", service |-> "None"],
    [port |-> port, status |-> "error", service |-> "None",
     error |-> "socket"] }

\* scan_ports(host, 1, end_port, timeout, 1) against a host with no listening
\* port in the range.  The pool is abstracted to what its single worker makes
\* the collector see: the futures complete in the order they were submitted.
InitLong ==
  /\ op = "scan_ports"
  /\ dns \in {NoAddr} \cup Addrs
  /\ start_port = 1
  /\ end_port \in 0..LongRange
  /\ max_workers = 1
  /\ env = [p \in RangePorts |-> AnyAnswer]
  /\ call = NoValue
  /\ run = 1
  /\ prev_retval = NoValue
  /\ Fresh
  /\ NewBackupManager
  /\ NewDiskCleaner({})

\* The dict comprehension has submitted every port of the range.
LongSubmitAll ==
  /\ pc = "submit"
  /\ next_submit' = end_port + 1
  /\ num_threads' = 1
  /\ pc' = "collect"
  /\ UNCHANGED << inputs, backup_vars, cleaner_vars, out, probe_vars, runs, lookups, target_ip, executor,
                  fut, work_queue, idle_semaphore, yielded, scanned,
                  open_ports, retval, exc, probes, collects, q_i >>

\* One iteration of "for future in as_completed(futures)" for the next port,
\* whose probe returned a result that is not open.
LongCollect ==
  /\ pc = "collect"
  /\ LET port == start_port + scanned
     IN /\ port \in ports_to_scan(start_port, end_port)
        /\ \E result \in NotOpenResults(port) :
             /\ yielded' = yielded \cup {port}
             /\ scanned' = scanned + 1
             /\ open_ports' = IF IsOpenResult(result)
                                THEN Append(open_ports, result)
                                ELSE open_ports
             /\ out' = Progress(Announce(out, result), scanned + 1,
                                total_ports(start_port, end_port))
  /\ UNCHANGED << inputs, backup_vars, cleaner_vars, probe_vars, runs, lookups, target_ip, executor,
                  next_submit, fut, work_queue, num_threads, idle_semaphore,
                  retval, exc, pc, probes, collects, q_i >>

NextLong ==
  \/ ScanPortsResolve
  \/ LongSubmitAll
  \/ LongCollect
  \/ Return

SpecLong == InitLong /\ [][NextLong]_vars

\* ========================================================= BackupManager
\* Calls made on one BackupManager, and on one DiskCleaner.
MaxCalls == 4

\* No scan is running or asked for.
ScannerIdle ==
  /\ op = "none"
  /\ dns = NoAddr
  /\ start_port = MaxPort /\ end_port = MaxPort
  /\ max_workers = 1
  /\ env = [p \in RangePorts |-> AnyAnswer]
  /\ call = NoValue
  /\ run = 1
  /\ prev_retval = NoValue
  /\ Fresh

\* del backups[i]
RemoveAt(s, i) == SubSeq(s, 1, i - 1) \o SubSeq(s, i + 1, Len(s))

\* for i, backup in enumerate(backups): if backup["id"] == backup_id: the
\* first index that matches, 0 when the loop ends without a match.
FindById(backups, backup_id) ==
  LET S == { i \in 1..Len(backups) : backups[i].id = backup_id }
  IN IF S = {} THEN 0 ELSE CHOOSE i \in S : \A j \in S : i <= j

\* "id": len(self.manifest["backups"]) + 1
NewId(backups) == Len(backups) + 1

InitBackup ==
  /\ ScannerIdle
  /\ NewBackupManager
  /\ NewDiskCleaner({})

\* create_backup(source_path, ...): the source may be missing, writing the
\* archive may raise, and _save_manifest may raise (all caught, failure
\* returned).  An entry carries its id and its creation stamp, here the
\* number of the call.
CreateBackup ==
  /\ bm_call.n < MaxCalls
  /\ \E outcome \in {"no_source", "archive_raises", "save_raises", "ok"} :
       LET n == bm_call.n + 1
           backup_info == [id |-> NewId(manifest), created |-> n]
       IN /\ bm_call' = [n |-> n, method |-> "create_backup", id |-> 0]
          /\ manifest' = IF outcome \in {"save_raises", "ok"}
                           THEN Append(manifest, backup_info) ELSE manifest
          /\ manifest_file' = IF outcome = "ok" THEN manifest'
                                                 ELSE manifest_file
          /\ bm_ret' = [success |-> outcome = "ok",
                        entry |-> IF outcome = "ok" THEN n ELSE 0]
          /\ bm_all_ok' = (bm_all_ok /\ outcome = "ok")
  /\ UNCHANGED << scanner_vars, cleaner_vars >>

\* delete_backup(backup_id): the backup file is removed, is already missing,
\* or its removal raises; then the entry is deleted and the manifest saved,
\* which may raise as well.
DeleteBackup ==
  /\ bm_call.n < MaxCalls
  /\ \E backup_id \in 1..MaxCalls,
        removal \in {"removed", "missing", "raises"}, save_ok \in BOOLEAN :
       LET n == bm_call.n + 1
           i == FindById(manifest, backup_id)
           found == i # 0
           deleted == found /\ removal # "raises"
           success == deleted /\ save_ok
       IN /\ bm_call' = [n |-> n, method |-> "delete_backup",
                         id |-> backup_id]
          /\ manifest' = IF deleted THEN RemoveAt(manifest, i) ELSE manifest
          /\ manifest_file' = IF success THEN manifest' ELSE manifest_file
          /\ bm_ret' = [success |-> success,
                        entry |-> IF success THEN manifest[i].created ELSE 0]
          /\ bm_all_ok' = (bm_all_ok /\ success)
  /\ UNCHANGED << scanner_vars, cleaner_vars >>

\* restore_backup(backup_id): the first entry with the id is restored, unless
\* none has it, its file is missing or the extraction raises.
RestoreBackup ==
  /\ bm_call.n < MaxCalls
  /\ \E backup_id \in 1..MaxCalls, restored \in BOOLEAN :
       LET n == bm_call.n + 1
           i == FindById(manifest, backup_id)
           success == i # 0 /\ restored
       IN /\ bm_call' = [n |-> n, method |-> "restore_backup",
                         id |-> backup_id]
          /\ bm_ret' = [success |-> success,
                        entry |-> IF success THEN manifest[i].created ELSE 0]
  /\ UNCHANGED << scanner_vars, cleaner_vars, manifest, manifest_file,
                  bm_all_ok >>

NextBackup ==
  \/ CreateBackup
  \/ DeleteBackup
  \/ RestoreBackup

SpecBackup == InitBackup /\ [][NextBackup]_vars

\* =========================================================== DiskCleaner
\* Files that may exist in the temp folder the cleaner scans.
MaxFiles == 2

TempFiles == 1..MaxFiles

\* The files of a set in the order path.rglob('*') lists them.
RECURSIVE FilesInOrder(_)
FilesInOrder(S) ==
  IF S = {} THEN << >>
  ELSE LET f == CHOOSE x \in S : \A y \in S : x <= y
       IN << f >> \o FilesInOrder(S \ {f})

InitCleaner ==
  /\ ScannerIdle
  /\ NewBackupManager
  /\ \E files \in SUBSET TempFiles : NewDiskCleaner(files)

\* scan_temp_folders(): one temp folder exists; entry.stat() raises for some
\* of its files, which are skipped; the folder is recorded when at least one
\* file was found.
ScanTempFolders ==
  /\ dc_call.n < MaxCalls
  /\ \E unreadable \in SUBSET temp_files :
       LET found == temp_files \ unreadable
           folder_result == [name |-> "Temp Sistema",
                             files |-> FilesInOrder(found),
                             file_count |-> Cardinality(found)]
           folders == IF folder_result.file_count > 0
                        THEN << folder_result >> ELSE << >>
       IN /\ scan_results' = folders
          /\ dc_ret' = [folders |-> folders,
                        total_files |-> Cardinality(found)]
  /\ dc_call' = [n |-> dc_call.n + 1, method |-> "scan_temp_folders",
                 dry_run |-> FALSE]
  /\ UNCHANGED << scanner_vars, backup_vars, temp_files >>

\* "for file_info in folder["files"]" of clean_temp_folders: present is the
\* set of files on disk, denied the files whose unlink raises.  A path that
\* is neither a file nor a directory any more is passed over without an
\* exception and counted like a file that was removed.
RECURSIVE CleanLoop(_, _, _, _, _)
CleanLoop(files, present, denied, dry_run, results) ==
  IF files = << >> THEN [results |-> results, present |-> present]
  ELSE LET f == Head(files)
       IN IF ~dry_run /\ f \in present /\ f \in denied
            THEN CleanLoop(Tail(files), present, denied, dry_run,
                           [results EXCEPT !.errors = @ + 1])
            ELSE CleanLoop(Tail(files),
                           IF dry_run THEN present ELSE present \ {f},
                           denied, dry_run,
                           [results EXCEPT !.deleted_files = @ + 1])

\* clean_temp_folders(dry_run)
CleanTempFolders ==
  /\ dc_call.n < MaxCalls
  /\ \E dry_run \in BOOLEAN, denied \in SUBSET TempFiles :
       /\ dc_call' = [n |-> dc_call.n + 1, method |-> "clean_temp_folders",
                      dry_run |-> dry_run]
       /\ IF scan_results = << >>
            THEN /\ dc_ret' = [error |-> "Ejecute scan_temp_folders primero"]
                 /\ UNCHANGED temp_files
            ELSE LET end == CleanLoop(scan_results[1].files, temp_files,
                                      denied, dry_run,
                                      [deleted_files |-> 0, errors |-> 0,
                                       dry_run |-> dry_run])
                 IN /\ dc_ret' = end.results
                    /\ temp_files' = end.present
  /\ UNCHANGED << scanner_vars, backup_vars, scan_results >>

\* Some program writes a new file into the temp folder.
TempFileCreated ==
  /\ \E f \in TempFiles \ temp_files : temp_files' = temp_files \cup {f}
  /\ UNCHANGED << scanner_vars, backup_vars, scan_results, dc_call, dc_ret >>

NextCleaner ==
  \/ ScanTempFolders
  \/ CleanTempFolders
  \/ TempFileCreated

SpecCleaner == InitCleaner /\ [][NextCleaner]_vars

\* ================================================================ claims
\* len(ports_to_scan) for the range the caller asked for.
TotalPorts == IF end_port >= start_port THEN end_port - start_port + 1 ELSE 0

Min(a, b) == IF a <= b THEN a ELSE b

\* The call of scan_ports ran its pool to the end and returned its list.
Completed == op = "scan_ports" /\ pc = "done" /\ target_ip # NoAddr

Returned(p) == fut[p].state = "finished" /\ fut[p].outcome.kind = "return"

\* C1: when scan_ports completes on a resolvable host without cancellation,
\* every port of [start_port, end_port] was probed exactly once and its
\* result collected exactly once, no other port was probed, and at no time
\* is a port probed or collected twice, for every interleaving of workers.
C1_EveryPortProbedOnce ==
  /\ op = "scan_ports" =>
       \A p \in RangePorts : probes[p] <= 1 /\ collects[p] <= 1
  /\ Completed =>
       \A p \in RangePorts :
         IF start_port <= p /\ p <= end_port
           THEN probes[p] = 1 /\ collects[p] = 1 /\ Returned(p)
           ELSE probes[p] = 0 /\ collects[p] = 0

\* A scan of at least two ports by two workers has completed.
C1_Witness ==
  /\ Completed /\ TotalPorts >= 2 /\ num_threads >= 2
  /\ \A p \in start_port..end_port : probes[p] = 1 /\ collects[p] = 1

\* C2: the list scan_ports returns is strictly ascending by port number,
\* whatever the order in which the probes completed.
C2_ReturnedListStrictlyAscending ==
  (op = "scan_ports" /\ pc = "done") =>
    \A i \in 1..(Len(retval) - 1) : retval[i].port < retval[i + 1].port

\* The scan returned two open ports that were collected in descending order.
C2_Witness ==
  /\ Completed /\ Len(retval) >= 2
  /\ open_ports[1].port > open_ports[2].port

\* C3: the probes started and not yet returned never exceed max_workers nor
\* min(max_workers, number of ports of the range); nor do the pool's threads.
C3_OutstandingProbesBounded ==
  /\ Cardinality(Running) <= max_workers
  /\ Cardinality(Running) <= Min(max_workers, TotalPorts)
  /\ Cardinality(Running) <= num_threads
  /\ num_threads <= Min(max_workers, TotalPorts)

\* max_workers >= 2 probes are outstanding while another port waits.
C3_Witness ==
  /\ max_workers >= 2
  /\ Cardinality(Running) = max_workers
  /\ work_queue # << >>

\* C4: if the host cannot be resolved, scan_ports returns at once: no port
\* is submitted or probed, no pool is created and the result is [].
C4_UnresolvedHostAborts ==
  (op = "scan_ports" /\ dns = NoAddr /\ pc # "start" /\ exc = "none") =>
    /\ pc = "done" /\ retval = << >>
    /\ executor = "none" /\ num_threads = 0 /\ work_queue = << >>
    /\ \A p \in RangePorts : fut[p] = NoFuture /\ probes[p] = 0

\* scan_ports over a non-empty range returned for an unresolvable host.
C4_Witness ==
  /\ op = "scan_ports" /\ dns = NoAddr /\ pc = "done"
  /\ TotalPorts >= 2

\* C5: quick_scan resolves the host before probing: for an unresolvable host
\* it attempts no port probe at all.
C5_QuickScanResolvesFirst ==
  (op = "quick_scan" /\ dns = NoAddr) => \A p \in AllPorts : probes[p] = 0

\* C6: the ports of the report of a completed scan_ports are exactly the
\* ports of [start_port, end_port] whose probe returned status abierto.
C6_ReportIsTheOpenPorts ==
  Completed =>
    { retval[i].port : i \in 1..Len(retval) } =
      { p \in RangePorts : /\ start_port <= p /\ p <= end_port
                           /\ Returned(p)
                           /\ fut[p].outcome.value.status = "abierto" }

\* A completed scan found an open, a closed and an errored port.
C6_Witness ==
  /\ Completed /\ Len(retval) = 1
  /\ \E p, q \in start_port..end_port :
       /\ Returned(p) /\ fut[p].outcome.value.status = "cerrado"
       /\ Returned(q) /\ fut[q].outcome.value.status = "error"

\* C7: whatever one scan_port call does (error status or any exception),
\* scan_ports still collects the results of all other ports of the range and
\* returns its report.
C7_ProbeFailureIsolated ==
  (op = "scan_ports" /\ target_ip # NoAddr /\ pc \in {"done", "raised"}
     /\ exc # "KeyboardInterrupt") =>
    /\ pc = "done"
    /\ \A p \in RangePorts :
         (start_port <= p /\ p <= end_port /\ Returned(p)) => p \in yielded

\* The direct scan_port call reached connect_ex with a resolved address and a
\* port the socket layer accepts.
ConnectAttempted ==
  /\ op = "scan_port" /\ pc # "start"
  /\ call.sock_ok /\ call.addr # NoAddr
  /\ 0 <= call.port /\ call.port <= MaxPort

\* C8: scan_port answers cerrado only when the connect was refused or timed
\* out; every other failure of the connect yields status error with the
\* underlying message in the result.
C8_ClosedOnlyRefusedOrTimeout ==
  (ConnectAttempted /\ call.code # 0) =>
    /\ probe_out.kind = "return"
    /\ IF call.code \in {111, 11}
         THEN probe_out.value.status = "cerrado"
         ELSE /\ probe_out.value.status = "error"
              /\ "error" \in DOMAIN probe_out.value

\* C9: scan_port returns status abierto if and only if the connect succeeded;
\* a failed service-name lookup for an open port neither changes the status
\* nor raises.
C9_OpenIffConnectSucceeded ==
  (op = "scan_port" /\ pc # "start") =>
    /\ (probe_out.kind = "return" /\ probe_out.value.status = "abierto")
         <=> (ConnectAttempted /\ call.code = 0)
    /\ (ConnectAttempted /\ call.code = 0 /\ ~call.serv) =>
         /\ probe_out.kind = "return"
         /\ probe_out.value.status = "abierto"
         /\ probe_out.value.port = call.port

\* The connect succeeded, the service lookup failed, the port is reported
\* open with the placeholder name.
C9_Witness ==
  /\ ConnectAttempted /\ call.code = 0 /\ ~call.serv
  /\ probe_out.kind = "return"
  /\ probe_out.value.status = "abierto"
  /\ probe_out.value.service = "desconocido"

\* C10: after the operator's interrupt arrives during scan_ports, no probe
\* that has not yet started is started.
C10_NoProbeStartsAfterCancel ==
  [][(op = "scan_ports" /\ exc = "KeyboardInterrupt") => Started' \subseteq Started]_vars

\* What the caller of scan_ports observes when the call has ended: whether it
\* returned, the exception that left it, and the value returned.
CallerObserves ==
  [returned |-> pc = "done",
   exc |-> exc,
   value |-> IF pc = "done" THEN retval ELSE << >>]

\* What the caller observes of a scan that ran and found no open port.
NoOpenPortObserved ==
  [returned |-> TRUE, exc |-> "none", value |-> SortedByPort(<< >>)]

Ended == pc \in {"done", "raised"}

\* C11: when scan_ports is cancelled after some probes have completed, it
\* returns a partial report: the open ports found so far, sorted and without
\* duplicates.
C11_CancelReturnsPartialReport ==
  (op = "scan_ports" /\ exc = "KeyboardInterrupt" /\ Ended /\ scanned >= 1) =>
    /\ pc = "done"
    /\ retval = SortedByPort(open_ports)
    /\ \A i \in 1..(Len(retval) - 1) : retval[i].port < retval[i + 1].port

\* C12: within one scan_ports run the host name is resolved exactly once (by
\* gethostbyname); no probe performs a name resolution of its own.
C12_HostResolvedOnce ==
  op = "scan_ports" =>
    /\ lookups <= 1
    /\ (Ended /\ exc = "none") => lookups = 1

\* C13: for an unresolvable host the caller of scan_ports observes an outcome
\* different from that of a successful scan that found no open port.
C13_ResolutionFailureDistinct ==
  (op = "scan_ports" /\ Ended /\ target_ip = NoAddr
     /\ exc # "KeyboardInterrupt") =>
    CallerObserves # NoOpenPortObserved

\* C14: after scan_ports completes, the result of every probe that ended
\* with status error is held in the results the scan returns.
C14_ErrorResultsKept ==
  Completed =>
    \A p \in RangePorts :
      (Returned(p) /\ fut[p].outcome.value.status = "error") =>
        \E i \in 1..Len(retval) : retval[i] = fut[p].outcome.value

\* C16: scan_ports never runs a scan with start_port > end_port and never
\* hands scan_port a port outside 1..65535.
C16_PortRangeValid ==
  op = "scan_ports" =>
    /\ executor # "none" => start_port <= end_port
    /\ \A p \in RangePorts : probes[p] > 0 => (1 <= p /\ p <= MaxPort)

\* C15: two scan_ports calls with the same arguments, every port's connect
\* outcome being fixed, return equal lists whatever the interleavings of the
\* workers in either call; nothing of the first call survives into the second.
C15_SecondScanReturnsSame ==
  (op = "scan_ports" /\ run = 2) =>
    /\ pc = "done" => retval = prev_retval
    /\ pc = "start" => (open_ports = << >> /\ scanned = 0 /\ yielded = {})

\* Both calls returned the same two open ports, the second call having
\* collected them in descending order.
C15_Witness ==
  /\ op = "scan_ports" /\ run = 2 /\ pc = "done"
  /\ Len(prev_retval) = 2 /\ retval = prev_retval
  /\ open_ports[1].port > open_ports[2].port

\* C17: every probe ends and, under fair scheduling, every scan_ports run on
\* a resolvable host eventually returns its report.
C17_ScanEventuallyReturns ==
  /\ \A p \in RangePorts :
       (fut[p].state = "running") ~> (fut[p].state = "finished")
  /\ (op = "scan_ports" /\ dns # NoAddr) ~> (pc = "done")

\* C18: every result scan_port returns has one status among abierto, cerrado
\* and error; its service is not None exactly when the status is abierto, and
\* it has an error detail exactly when the status is error.
C18_ResultShape ==
  (op = "scan_port" /\ pc = "done") =>
    LET r == probe_out.value
    IN /\ probe_out.kind = "return"
       /\ r.port = call.port
       /\ r.status \in {"abierto", "cerrado", "error"}
       /\ DOMAIN r \in {{"port", "status", "service"},
                        {"port", "status", "service", "error"}}
       /\ (r.service # "None") <=> (r.status = "abierto")
       /\ ("error" \in DOMAIN r) <=> (r.status = "error")

\* A probe whose name resolution failed returned an error result with its
\* detail and no service.
C18_Witness ==
  /\ op = "scan_port" /\ pc = "done"
  /\ probe_out.value.status = "error"
  /\ probe_out.value.error = "gaierror"
  /\ probe_out.value.service = "None"

\* The open results among the futures the collector has taken.
CollectedOpen ==
  { p \in yielded : Returned(p) /\ fut[p].outcome.value.status = "abierto" }

\* C19: open_ports and scanned of a scan_ports run are written by the
\* collecting thread only (a step that changes either is a step of the
\* as_completed loop, never of a worker), so no append or increment is lost
\* or duplicated: scanned counts the futures taken and open_ports holds each
\* open result taken exactly once.
C19_SingleWriter ==
  [][op = "scan_ports" =>
       /\ (open_ports' # open_ports \/ scanned' # scanned) => Collect
       /\ scanned' = Cardinality(yielded')
       /\ { open_ports'[i].port : i \in 1..Len(open_ports') } = CollectedOpen'
       /\ Len(open_ports') = Cardinality(CollectedOpen')]_vars

\* The collector has appended an open result while a worker is still inside
\* a probe and another finished probe waits to be collected.
C19_Witness ==
  /\ op = "scan_ports" /\ pc = "collect"
  /\ Len(open_ports) >= 1
  /\ Running # {}
  /\ \E p \in RangePorts \ yielded : fut[p].state = "finished"

\* No probe is queued or in flight and the pool is not open.
Quiescent ==
  /\ work_queue = << >>
  /\ Running = {}
  /\ \A p \in RangePorts : fut[p].state \in {"none", "finished"}
  /\ \A p \in RangePorts :
       (executor = "shutdown" /\ start_port <= p /\ p <= end_port) =>
         fut[p].state = "finished"
  /\ executor # "open"

\* C20: scan_ports returns only after every submitted probe has completed:
\* when it returns no probe is pending or in flight and the pool is shut
\* down, and nothing changes the returned list afterwards.
C20_ReturnsAfterAllProbes ==
  [][op = "scan_ports" =>
       /\ pc' = "done" => Quiescent'
       /\ pc = "done" => (retval' = retval /\ open_ports' = open_ports)]_vars

\* A scan returned after its full pool of at least two workers had run every
\* probe of the range.
C20_Witness ==
  /\ Completed /\ executor = "shutdown"
  /\ max_workers >= 2 /\ num_threads = max_workers
  /\ \A p \in start_port..end_port : fut[p].state = "finished"

\* Positions of the open-port lines in the output, and the ports they name.
OpenLineIdx == { i \in 1..Len(out) : out[i].line = "open" }

AnnouncedPorts == { out[i].port : i \in OpenLineIdx }

SummaryPrinted == \E i \in 1..Len(out) : out[i].line = "summary"

\* C21: open ports are emitted incrementally: each open result is announced
\* once, in the step that collects its probe and before the completion
\* summary; the ports announced during a completed scan are the ports of the
\* returned report (in collection order, not port order).
C21_OpenPortsAnnouncedWhenCollected ==
  op = "scan_ports" =>
    /\ \A i, j \in OpenLineIdx : out[i].port = out[j].port => i = j
    /\ AnnouncedPorts = CollectedOpen
    /\ \A i \in 1..Len(out) :
         out[i].line = "summary" => (i = Len(out) /\ pc = "done")
    /\ Completed =>
         /\ SummaryPrinted
         /\ AnnouncedPorts = { retval[i].port : i \in 1..Len(retval) }

\* A completed scan announced two open ports in descending port order, then
\* printed the summary.
C21_Witness ==
  /\ Completed /\ Len(retval) = 2
  /\ Len(out) = 3
  /\ out[1].line = "open" /\ out[2].line = "open" /\ out[3].line = "summary"
  /\ out[1].port > out[2].port

\* Number of futures the collector loop has taken, over all ports.
RECURSIVE SumCollects(_)
SumCollects(S) ==
  IF S = {} THEN 0
  ELSE LET p == CHOOSE x \in S : TRUE
       IN collects[p] + SumCollects(S \ {p})

\* C22: the completion counter of scan_ports is incremented exactly once per
\* collected probe, never exceeds the number of ports in the range, and
\* equals end_port - start_port + 1 when the scan completes.
C22_CounterCountsCollected ==
  op = "scan_ports" =>
    /\ scanned = SumCollects(RangePorts)
    /\ scanned = Cardinality(yielded)
    /\ scanned <= total_ports(start_port, end_port)
    /\ Completed => scanned = end_port - start_port + 1

\* Positions of the progress lines in the output.
ProgressIdx == { i \in 1..Len(out) : out[i].line = "progress" }

\* C23: a progress line is printed exactly when the number of collected
\* probes reaches a positive multiple of 100: the counts printed are strictly
\* increasing multiples of 100, each at most the number of ports N, a
\* completed scan has printed floor(N/100) of them, and none when N < 100.
C23_ProgressEveryHundred ==
  op = "scan_ports" =>
    /\ \A i \in ProgressIdx :
         /\ out[i].scanned > 0
         /\ out[i].scanned % 100 = 0
         /\ out[i].scanned <= TotalPorts
         /\ out[i].total = TotalPorts
    /\ \A i, j \in ProgressIdx : i < j => out[i].scanned < out[j].scanned
    /\ { out[i].scanned : i \in ProgressIdx }
         = { n \in 1..scanned : n % 100 = 0 }
    /\ Completed => Cardinality(ProgressIdx) = TotalPorts \div 100
    /\ TotalPorts < 100 => ProgressIdx = {}

\* A completed scan of more than 200 ports, not a multiple of 100, printed
\* the progress lines for 100 and 200 and then the summary.
C23_Witness ==
  /\ Completed /\ TotalPorts > 200 /\ TotalPorts % 100 # 0
  /\ scanned = TotalPorts
  /\ Len(out) = 3
  /\ out[1] = ProgressLine(100, TotalPorts)
  /\ out[2] = ProgressLine(200, TotalPorts)
  /\ out[3].line = "summary"

\* C24: quick_scan probes each port of common_ports exactly once, one after
\* the other in list order in the calling thread (no pool, so never two
\* probes at a time), and returns the open ones in ascending port order; a
\* probe that ends in error does not end the loop.
C24_QuickScanSequential ==
  op = "quick_scan" =>
    /\ \A i \in 1..Len(common_ports) :
         probes[common_ports[i]] = IF i < q_i THEN 1 ELSE 0
    /\ \A p \in AllPorts \ CommonPortSet : probes[p] = 0
    /\ executor = "none" /\ num_threads = 0 /\ Running = {}
    /\ pc = "raised" => exc = "KeyboardInterrupt"
    /\ pc = "done" =>
         /\ q_i = Len(common_ports) + 1
         /\ retval = open_ports
         /\ \A i \in 1..(Len(retval) - 1) : retval[i].port < retval[i + 1].port
         /\ AnnouncedPorts = { retval[i].port : i \in 1..Len(retval) }

\* quick_scan returned two open ports after probing all the common ports,
\* one of whose probes ended in error for want of a socket.
C24_Witness ==
  /\ op = "quick_scan" /\ pc = "done" /\ dns # NoAddr
  /\ \A i \in 1..Len(common_ports) : probes[common_ports[i]] = 1
  /\ lookups = Len(common_ports) - 1
  /\ Len(retval) = 2 /\ retval[1].port < retval[2].port

\* C25: on every path by which scan_port returns (open, closed or error) the
\* socket it created has been closed: no open socket is left behind.
C25_SocketClosedOnReturn ==
  (op = "scan_port" /\ pc = "done") => probe_out.sock # "open"

\* The service name a result dict reports (None when it has no such entry).
ServiceName(r) == IF "service" \in DOMAIN r THEN r.service ELSE "None"

\* C26: for the same probe outcome port_check reports is_open = true exactly
\* when scan_port reports status abierto, both report the same service name
\* for an open port and no service name otherwise.
C26_ProbeImplementationsAgree ==
  (op = "scan_port" /\ pc # "start" /\ check_out.kind # "none") =>
    /\ check_out.kind = probe_out.kind
    /\ check_out.kind = "return" =>
         /\ check_out.value.is_open = (probe_out.value.status = "abierto")
         /\ ServiceName(check_out.value) = ServiceName(probe_out.value)
         /\ ~check_out.value.is_open => ServiceName(check_out.value) = "None"

\* Both implementations were called on a refused connect to a port that has
\* a name in the services database: both report closed and no service.
C26_Witness ==
  /\ op = "scan_port" /\ pc = "done" /\ check_out.kind = "return"
  /\ call.sock_ok /\ call.addr # NoAddr /\ call.code = 111 /\ call.serv
  /\ ~check_out.value.is_open
  /\ probe_out.value.status = "cerrado"

\* C27: after any sequence of successful create_backup and delete_backup
\* calls no two entries of the manifest have the same id.
C27_ManifestIdsUnique ==
  bm_all_ok =>
    \A i, j \in 1..Len(manifest) : manifest[i].id = manifest[j].id => i = j

\* A delete_backup call has just returned.
DeleteReturned ==
  bm_call'.n # bm_call.n /\ bm_call'.method = "delete_backup"

\* C28: delete_backup removes a manifest entry if and only if it returns
\* success: on failure the manifest is unchanged in memory and as saved; on
\* success exactly one entry, carrying the requested id, is removed and the
\* others are untouched.
C28_DeleteRemovesIffSuccess ==
  [][DeleteReturned =>
       /\ bm_ret'.success <=> manifest' # manifest
       /\ ~bm_ret'.success =>
            (manifest' = manifest /\ manifest_file' = manifest_file)
       /\ bm_ret'.success =>
            \E i \in 1..Len(manifest) :
              /\ manifest[i].id = bm_call'.id
              /\ manifest' = RemoveAt(manifest, i)
              /\ manifest_file' = manifest']_vars

\* A clean_temp_folders call has just returned.
CleanReturned ==
  dc_call'.n # dc_call.n /\ dc_call'.method = "clean_temp_folders"

\* C29: clean_temp_folders(dry_run=False) reports in deleted_files exactly
\* the number of files that call removed (0 for a second clean without a new
\* scan); with dry_run=True it removes nothing; without a prior scan that
\* found files it returns the error and removes nothing.
C29_CleanReportsWhatItRemoved ==
  [][CleanReturned =>
       /\ scan_results = << >> =>
            /\ dc_ret' = [error |-> "Ejecute scan_temp_folders primero"]
            /\ temp_files' = temp_files
       /\ dc_call'.dry_run => temp_files' = temp_files
       /\ (scan_results # << >> /\ ~dc_call'.dry_run) =>
            dc_ret'.deleted_files = Cardinality(temp_files \ temp_files')]_vars

====
